---- MODULE Spec2Model ----
(***************************************************************************)
(* A model of ItemShop.py: the section locator dig_for_sections, the       *)
(* section normalizer normalize_section and the run of main.               *)
(*                                                                         *)
(* JSON values are tagged records.  A JSON string is a sequence of         *)
(* one-character strings, so that Python's string comparison, the          *)
(* "Z" replacement and the ISO-8601 parsing are computed and not assumed.  *)
(* A JSON object is a sequence of <<key, value>> pairs in insertion order.  *)
(* Python's None is JNull.                                                 *)
(***************************************************************************)
EXTENDS Integers, Sequences, FiniteSets, TLC

VARIABLES
    sec,        \* normalize_section: the argument of the call
    npc,        \* normalize_section: "call", "returned" or "raised"
    out,        \* normalize_section: the returned dict and the locals
    doc,        \* dig_for_sections: the argument of the call
    dpc,        \* dig_for_sections: "call" or "returned"
    found,      \* dig_for_sections: the returned value
    mpc,        \* main: the place of the run
    data,       \* main: the document of line 119
    sections,   \* main: the value of line 121
    normalized, \* main: the rows of line 128
    bucket,     \* main: the buckets of lines 149-154
    files,      \* main: what the run has written
    pos,        \* main: the index of the next save_url_to call, or of the next row
    exit_status \* main: "none" while running, then the exit status or the exception

nvars == <<sec, npc, out>>
dvars == <<doc, dpc, found>>
mvars == <<mpc, data, sections, normalized, bucket, files, pos, exit_status>>
vars == <<sec, npc, out, doc, dpc, found,
          mpc, data, sections, normalized, bucket, files, pos, exit_status>>

----------------------------------------------------------------------------
(* Bounds of the model.                                                    *)

MaxRanks == 3
MaxOfferGroups == 4
MaxDepth == 4
MaxSections == 2

----------------------------------------------------------------------------
(* JSON values.                                                            *)

JNull == [t |-> "null"]
JBool(b) == [t |-> "bool", v |-> b]
JNum(n) == [t |-> "num", v |-> n]
JStr(s) == [t |-> "str", v |-> s]
JList(s) == [t |-> "list", v |-> s]
JDict(s) == [t |-> "dict", v |-> s]

IsDict(x) == x.t = "dict"
IsList(x) == x.t = "list"
IsStr(x) == x.t = "str"

\* Python truthiness: None, False, 0, "", [] and {} are falsy.
Truthy(x) ==
    CASE x.t = "null" -> FALSE
      [] x.t = "bool" -> x.v
      [] x.t = "num" -> x.v # 0
      [] OTHER -> Len(x.v) > 0

\* Python's `a or b`.
Or(a, b) == IF Truthy(a) THEN a ELSE b

\* `k in d` for a dict d.
Has(d, k) == \E i \in DOMAIN d.v : d.v[i][1] = k

\* d.get(k) for a dict d: None when the key is absent.
Get(d, k) ==
    IF Has(d, k) THEN d.v[CHOOSE i \in DOMAIN d.v : d.v[i][1] = k][2] ELSE JNull

\* The integer a bool or a number compares as.
NumVal(x) == IF x.t = "bool" THEN (IF x.v THEN 1 ELSE 0) ELSE x.v

IsNumeric(x) == x.t \in {"num", "bool"}

\* Python's == on the hashable JSON values (None, bool, number, string).
JEq(a, b) ==
    CASE a.t = "null" -> b.t = "null"
      [] a.t = "str" -> b.t = "str" /\ a.v = b.v
      [] IsNumeric(a) -> IsNumeric(b) /\ NumVal(a) = NumVal(b)
      [] OTHER -> FALSE

Hashable(x) == x.t \in {"null", "bool", "num", "str"}

----------------------------------------------------------------------------
(* Strings: code points and Python's < on str.                             *)

Digits == <<"0", "1", "2", "3", "4", "5", "6", "7", "8", "9">>

IsDigit(c) == \E i \in 1..10 : Digits[i] = c
DigitVal(c) == (CHOOSE i \in 1..10 : Digits[i] = c) - 1

\* The code points of the characters of the model's alphabet.
CodePoints ==
    [c \in {"+", "-", ".", ":", "A", "B", "T", "Z", "g", "n", "o", "s", "u", "x"}
           \cup {Digits[i] : i \in 1..10} |->
        CASE c = "+" -> 43
          [] c = "-" -> 45
          [] c = "." -> 46
          [] c = ":" -> 58
          [] c = "A" -> 65
          [] c = "B" -> 66
          [] c = "T" -> 84
          [] c = "Z" -> 90
          [] c = "g" -> 103
          [] c = "n" -> 110
          [] c = "o" -> 111
          [] c = "s" -> 115
          [] c = "u" -> 117
          [] c = "x" -> 120
          [] OTHER -> 48 + DigitVal(c)]
CharCode(c) == CodePoints[c]

\* Python's < on str: by the first position that differs, else by length.
StrLess(a, b) ==
    LET n == IF Len(a) < Len(b) THEN Len(a) ELSE Len(b)
        D == {i \in 1..n : a[i] # b[i]}
    IN  IF D = {} THEN Len(a) < Len(b)
        ELSE LET i == CHOOSE k \in D : \A j \in D : k <= j
             IN  CharCode(a[i]) < CharCode(b[i])

\* The "unset" start date of line 59.
Sentinel ==
    <<"2", "0", "2", "3", "-", "0", "1", "-", "0", "1", "T",
      "0", "0", ":", "0", "0", ":", "0", "0", ".", "0", "0", "0", "Z">>

----------------------------------------------------------------------------
(* normalize_section, lines 30-114.  Each definition below is the value of  *)
(* the local of the same name, defined when the lines before it did not     *)
(* raise; Raises collects the places where the code raises.                 *)

\* The base object chosen by the presence of the wrapper keys instead of the
\* truthiness of their values.
base_present(s) ==
    IF Has(s, "section") THEN Get(s, "section")
    ELSE IF Has(s, "content") THEN Get(s, "content")
    ELSE s

\* line 32: base = sec.get("section") or sec.get("content") or sec
base(s) == Or(Get(s, "section"), Or(Get(s, "content"), s))

\* line 33: meta = base.get("metadata") or sec.get("metadata") or {}
meta(s) == Or(Get(base(s), "metadata"), Or(Get(s, "metadata"), JDict(<<>>)))

\* lines 39-41: a source is appended when it is a list.
ListOrEmpty(x) == IF IsList(x) THEN x.v ELSE <<>>

\* lines 44 and 82: og_list = meta.get("offerGroups") or []
og_list(s) == Or(Get(meta(s), "offerGroups"), JList(<<>>))

\* What `for og in og_list` iterates: the elements of a list, the characters
\* of a string, the keys of a dict (strings, one item each).
Iterable(x) == x.t \in {"list", "str", "dict"}
Iter(x) ==
    CASE x.t = "list" -> x.v
      [] x.t = "str" -> [i \in DOMAIN x.v |-> JStr(<<x.v[i]>>)]
      [] x.t = "dict" -> [i \in DOMAIN x.v |-> JStr(<<"x">>)]

\* lines 47-49: the stackRanks of one offer group that is a dict.
og_metadata(og) == Or(Get(og, "metadata"), JDict(<<>>))
og_ranks(og) ==
    IF Truthy(Get(og, "stackRanks")) THEN Get(og, "stackRanks")
    ELSE Get(og_metadata(og), "stackRanks")

\* lines 45-51: the loop over the offer groups.
RECURSIVE og_stackRanks(_)
og_stackRanks(ogs) ==
    IF ogs = <<>> THEN <<>>
    ELSE (IF IsDict(Head(ogs)) THEN ListOrEmpty(og_ranks(Head(ogs))) ELSE <<>>)
         \o og_stackRanks(Tail(ogs))

\* lines 38-51
stackRanks_all(s) ==
    ListOrEmpty(Get(s, "stackRanks"))
    \o ListOrEmpty(Get(base(s), "stackRanks"))
    \o ListOrEmpty(Get(meta(s), "stackRanks"))
    \o og_stackRanks(Iter(og_list(s)))

\* lines 58-60: the record is kept (not `continue`d).
admitted_nosentinel(r) == Truthy(Get(r, "startDate"))
admitted(r) ==
    LET sd == Get(r, "startDate")
    IN  Truthy(sd) /\ ~(IsStr(sd) /\ sd.v = Sentinel)

\* line 61
group_key(r) == <<Get(r, "context"), Get(r, "productTag")>>
KeyEq(k1, k2) == JEq(k1[1], k2[1]) /\ JEq(k1[2], k2[2])

\* lines 56-62: groups, a dict in insertion order: <<key, items>> entries.
RECURSIVE group_fold(_, _)
group_fold(rs, acc) ==
    IF rs = <<>> THEN acc
    ELSE LET r == Head(rs)
             I == {i \in DOMAIN acc : KeyEq(acc[i].key, group_key(r))}
         IN  group_fold(Tail(rs),
                 IF ~admitted(r) THEN acc
                 ELSE IF I = {} THEN Append(acc, [key |-> group_key(r), items |-> <<r>>])
                 ELSE [acc EXCEPT ![CHOOSE i \in I : TRUE].items = Append(@, r)])

groups(s) == group_fold(stackRanks_all(s), <<>>)

\* Python's < on two startDate values that can be compared.
Comparable(a, b) == (IsStr(a) /\ IsStr(b)) \/ (IsNumeric(a) /\ IsNumeric(b))
Less(a, b) ==
    IF IsStr(a) /\ IsStr(b) THEN StrLess(a.v, b.v)
    ELSE IF IsNumeric(a) /\ IsNumeric(b) THEN NumVal(a) < NumVal(b)
    ELSE FALSE

\* line 67: items.sort(key=startDate), a stable sort.
RECURSIVE insert_sorted(_, _)
insert_sorted(sorted, r) ==
    IF sorted = <<>> THEN <<r>>
    ELSE IF Less(Get(r, "startDate"), Get(sorted[Len(sorted)], "startDate"))
         THEN Append(insert_sorted(SubSeq(sorted, 1, Len(sorted) - 1), r),
                     sorted[Len(sorted)])
    ELSE Append(sorted, r)

RECURSIVE sort_items(_)
sort_items(items) ==
    IF items = <<>> THEN <<>>
    ELSE insert_sorted(sort_items(SubSeq(items, 1, Len(items) - 1)), items[Len(items)])

\* lines 68-74: the windows of one sorted group.
windows(items) ==
    [i \in DOMAIN items |->
        [startDate |-> Get(items[i], "startDate"),
         endDate |-> IF i + 1 <= Len(items) THEN Get(items[i + 1], "startDate")
                     ELSE JNull]]

RECURSIVE flatten(_)
flatten(ss) == IF ss = <<>> THEN <<>> ELSE Head(ss) \o flatten(Tail(ss))

\* A slip of lines 68-74: the successor is taken from the whole list of
\* sorted records, not from the group.
parsed_ranks_chained(gs) ==
    windows(flatten([i \in DOMAIN gs |-> sort_items(gs[i].items)]))

\* lines 64-74: parsed_ranks, from groups.
parsed_ranks(gs) ==
    flatten([i \in DOMAIN gs |-> windows(sort_items(gs[i].items))])

\* lines 78-79
bg(s) == Or(Get(meta(s), "background"), JDict(<<>>))
custom_tex(s) == Get(bg(s), "customTexture")

\* The count of the spec's section 4.4: distinct identifiers plus the
\* entries without one.
og_id(og) ==
    IF ~IsDict(og) THEN JNull
    ELSE IF Has(og, "offerGroupId") THEN Get(og, "offerGroupId")
    ELSE IF IsDict(Get(og, "metadata")) THEN Get(Get(og, "metadata"), "offerGroupId")
    ELSE JNull
dedup_count(ogs) ==
    Cardinality({i \in DOMAIN ogs : og_id(ogs[i]).t = "null"})
    + Cardinality({i \in DOMAIN ogs :
          /\ og_id(ogs[i]).t # "null"
          /\ \A j \in 1..(i - 1) : ~JEq(og_id(ogs[j]), og_id(ogs[i]))})
offer_groups_count_dedup(s) == dedup_count(Iter(og_list(s)))

\* line 83: offer_groups_count = len(og_list)
offer_groups_count(s) == Len(og_list(s).v)

\* lines 88-89, for one offer group that is a dict
og_tmetas(og) == Or(Get(og_metadata(og), "textureMetadata"), JList(<<>>))

\* lines 90-93: the string values of one offer group's textureMetadata.
RECURSIVE tmeta_values(_)
tmeta_values(ts) ==
    IF ts = <<>> THEN <<>>
    ELSE (IF IsStr(Get(Head(ts), "value")) THEN <<Get(Head(ts), "value").v>> ELSE <<>>)
         \o tmeta_values(Tail(ts))

\* lines 86-93
RECURSIVE texture_urls_raw(_)
texture_urls_raw(ogs) ==
    IF ogs = <<>> THEN <<>>
    ELSE tmeta_values(Iter(og_tmetas(Head(ogs)))) \o texture_urls_raw(Tail(ogs))

\* line 96: list(dict.fromkeys(texture_urls))
RECURSIVE dedup(_)
dedup(us) ==
    IF us = <<>> THEN <<>>
    ELSE LET front == dedup(SubSeq(us, 1, Len(us) - 1))
             u == us[Len(us)]
         IN  IF \E i \in DOMAIN front : front[i] = u THEN front ELSE Append(front, u)

texture_urls(s) == dedup(texture_urls_raw(Iter(og_list(s))))
has_texture_metadata(s) == Len(texture_urls_raw(Iter(og_list(s)))) > 0

\* A slip of line 102: the first window's start, not the minimum.
start_date_first(pr) == IF pr = <<>> THEN JNull ELSE pr[1].startDate

\* lines 99-104: min() returns the first of the least elements.
start_date(pr) ==
    IF pr = <<>> THEN JNull
    ELSE pr[CHOOSE i \in DOMAIN pr :
                /\ \A j \in DOMAIN pr : ~Less(pr[j].startDate, pr[i].startDate)
                /\ \A j \in 1..(i - 1) : Less(pr[i].startDate, pr[j].startDate)].startDate

\* line 35: get(*keys), the value of the first key present in base.
RECURSIVE get(_, _)
get(b, keys) ==
    IF keys = <<>> THEN JNull
    ELSE IF Has(b, Head(keys)) THEN Get(b, Head(keys))
    ELSE get(b, Tail(keys))

SectionIdKeys == <<"sectionId", "sectionID", "id", "section_id", "name">>
DisplayNameKeys == <<"displayName", "title", "sectionDisplayName">>

\* The start dates of the records rs cannot all be compared with one another.
Incomparable(ds) ==
    \E i, j \in DOMAIN ds : i # j /\ ~Comparable(ds[i], ds[j])

\* The places where normalize_section raises, in the order of the lines:
\* .get on a value that is no dict (AttributeError), a loop over a value
\* that is not iterable, an unhashable group key, < between a str and a
\* number in sort or min (TypeError).
Raises(s) ==
    \/ ~IsDict(s)                                                    \* line 32
    \/ ~IsDict(base(s))                                              \* line 33
    \/ ~IsDict(meta(s))                                              \* line 39
    \/ ~Iterable(og_list(s))                                         \* line 45
    \/ LET ogs == Iter(og_list(s))                                   \* line 49
       IN  \E i \in DOMAIN ogs :
               /\ IsDict(ogs[i])
               /\ ~Truthy(Get(ogs[i], "stackRanks"))
               /\ ~IsDict(og_metadata(ogs[i]))
    \/ LET rs == stackRanks_all(s)                                   \* lines 58-62
       IN  \E i \in DOMAIN rs :
               \/ ~IsDict(rs[i])
               \/ /\ admitted(rs[i])
                  /\ ~(Hashable(group_key(rs[i])[1]) /\ Hashable(group_key(rs[i])[2]))
    \/ LET gs == groups(s)                                           \* line 67
       IN  \E g \in DOMAIN gs :
               Incomparable([i \in DOMAIN gs[g].items |-> Get(gs[g].items[i], "startDate")])
    \/ ~IsDict(bg(s))                                                \* line 79
    \/ LET ogs == Iter(og_list(s))                                   \* lines 88-91
       IN  \E i \in DOMAIN ogs :
               \/ ~IsDict(ogs[i])
               \/ ~IsDict(og_metadata(ogs[i]))
               \/ ~Iterable(og_tmetas(ogs[i]))
               \/ LET ts == Iter(og_tmetas(ogs[i]))
                  IN  \E k \in DOMAIN ts : ~IsDict(ts[k])
    \/ LET pr == parsed_ranks(groups(s))                             \* line 102
       IN  Incomparable([i \in DOMAIN pr |-> pr[i].startDate])

\* lines 106-114: the returned dict.
CanonicalSection(s, pr) ==
    [sectionId |-> get(base(s), SectionIdKeys),
     displayName |-> get(base(s), DisplayNameKeys),
     customTexture |-> custom_tex(s),
     offerGroupsCount |-> offer_groups_count(s),
     hasTextureMetadata |-> has_texture_metadata(s),
     textureUrls |-> texture_urls(s),
     stackRankStart |-> start_date(pr)]

NoSection ==
    [sectionId |-> JNull, displayName |-> JNull, customTexture |-> JNull,
     offerGroupsCount |-> 0, hasTextureMetadata |-> FALSE, textureUrls |-> <<>>,
     stackRankStart |-> JNull]

\* One call of normalize_section: whether it raised, the returned dict, and
\* the locals groups and parsed_ranks at the return.
normalize_section(s) ==
    IF Raises(s)
    THEN [raised |-> TRUE, ret |-> NoSection, groups |-> <<>>, parsed_ranks |-> <<>>]
    ELSE LET gs == groups(s)
             pr == parsed_ranks(gs)
         IN  [raised |-> FALSE, ret |-> CanonicalSection(s, pr), groups |-> gs,
              parsed_ranks |-> pr]

----------------------------------------------------------------------------
(* The sections normalize_section is called with.                          *)

D2c(n) == <<Digits[(n \div 10) + 1], Digits[(n % 10) + 1]>>
D4c(n) == D2c(n \div 100) \o D2c(n % 100)

\* The timestamp "YYYY-MM-DDTHH:MM:00.000Z" of the API.
Iso(y, mo, d, h, mi) ==
    D4c(y) \o <<"-">> \o D2c(mo) \o <<"-">> \o D2c(d) \o <<"T">> \o D2c(h)
    \o <<":">> \o D2c(mi) \o <<":", "0", "0", ".", "0", "0", "0", "Z">>

Str1(c) == JStr(<<c>>)
Str2(c, d) == JStr(<<c, d>>)

DateOpts == {"missing", "sentinel", "d10", "d20"}
DateOf(d) ==
    CASE d = "sentinel" -> Sentinel
      [] d = "d10" -> Iso(2025, 9, 10, 0, 0)
      [] d = "d20" -> Iso(2025, 9, 20, 0, 0)

\* A stackRanks record: startDate (or none), context, productTag null.
Candidate(d, c) ==
    JDict((IF d = "missing" THEN <<>> ELSE << <<"startDate", JStr(DateOf(d))>> >>)
          \o << <<"context", Str1(c)>>, <<"productTag", JNull>> >>)

\* Every start date in group A, the real dates in group B as well.
CandidateOpts == (DateOpts \X {"A"}) \cup ({"d10", "d20"} \X {"B"})
CandidateSeqs == UNION {[1..n -> CandidateOpts] : n \in 0..MaxRanks}

\* Where the records of a section are stored: all in one of the five
\* places, or the i-th record in the i-th place.
Locs == <<"sec", "base", "meta", "og", "ogmeta">>
LocOf(layout, i) == IF layout = "spread" THEN Locs[((i - 1) % 5) + 1] ELSE layout

RECURSIVE StoredAt(_, _, _, _)
StoredAt(cs, layout, loc, i) ==
    IF i > Len(cs) THEN <<>>
    ELSE (IF LocOf(layout, i) = loc THEN <<Candidate(cs[i][1], cs[i][2])>> ELSE <<>>)
         \o StoredAt(cs, layout, loc, i + 1)

Entry(k, list) == IF Len(list) = 0 THEN <<>> ELSE << <<k, JList(list)>> >>
DictEntry(k, pairs) == IF Len(pairs) = 0 THEN <<>> ELSE << <<k, JDict(pairs)>> >>

\* A section holding the records cs, wrapped under "section" or "content"
\* or not wrapped (w = "none": the section is its own base).
WindowSection(w, layout, cs) ==
    LET at(loc) == StoredAt(cs, layout, loc, 1)
        ogs == (IF Len(at("og")) = 0 THEN <<>>
                ELSE <<JDict(Entry("stackRanks", at("og")))>>)
               \o (IF Len(at("ogmeta")) = 0 THEN <<>>
                   ELSE <<JDict(DictEntry("metadata", Entry("stackRanks", at("ogmeta"))))>>)
        metaD == Entry("stackRanks", at("meta")) \o Entry("offerGroups", ogs)
        inner(own) == << <<"sectionId", Str1("s")>> >> \o Entry("stackRanks", own)
                      \o DictEntry("metadata", metaD)
    IN  IF w = "none" THEN JDict(inner(at("sec") \o at("base")))
        ELSE JDict(<< <<w, JDict(inner(at("base")))>> >> \o Entry("stackRanks", at("sec")))

\* The wrappers and layouts of the sections: <<wrapper, layout>>.
Placements ==
    ({"none"} \X {"sec", "meta", "og", "ogmeta", "spread"})
    \cup ({"section"} \X {"sec", "base", "spread"})
    \cup ({"content"} \X {"spread"})

WindowSections ==
    {WindowSection(p[1], p[2], cs) : p \in Placements, cs \in CandidateSeqs}

\* The offer groups of the API: an identifier of their own or in their
\* metadata, or none; textureMetadata entries with a URL or another value.
Texture(u) == JDict(<< <<"value", u>> >>)
OfferGroupShapes ==
    {JDict(<< <<"offerGroupId", Str2("g", "1")>>,
              <<"metadata", JDict(<< <<"textureMetadata",
                    JList(<<Texture(Str2("u", "1"))>>)>> >>)>> >>),
     JDict(<< <<"metadata", JDict(<< <<"offerGroupId", Str2("g", "1")>>,
              <<"textureMetadata", JList(<<Texture(Str2("u", "2")), Texture(Str2("u", "1"))>>)>> >>)>> >>),
     JDict(<< <<"offerGroupId", Str2("g", "2")>> >>),
     JDict(<< <<"metadata", JDict(<< <<"textureMetadata",
                    JList(<<Texture(JNum(5))>>)>> >>)>> >>)}

OfferGroupSeqs == UNION {[1..n -> OfferGroupShapes] : n \in 0..MaxOfferGroups}

OfferGroupSection(ogs) ==
    JDict(<< <<"id", Str1("s")>>, <<"title", Str1("n")>>,
             <<"metadata", JDict(<< <<"offerGroups", JList(ogs)>>,
                   <<"background", JDict(<< <<"customTexture", Str2("u", "0")>> >>)>> >>)>> >>)

OfferGroupSections == {OfferGroupSection(ogs) : ogs \in OfferGroupSeqs}

\* Sections of an unexpected shape: a value of another JSON type where the
\* code expects a dict or a list, start dates that are not all strings.
Obj1(k, x) == JDict(<< <<k, x>> >>)
Rank(sd, c) == JDict(<< <<"startDate", sd>>, <<"context", c>> >>)

MalformedSections ==
    {Str1("x"), JNull, JNum(5), JList(<<>>),
     Obj1("section", Str1("x")),
     Obj1("metadata", Str1("x")),
     Obj1("stackRanks", JList(<<Str1("x")>>)),
     Obj1("metadata", Obj1("offerGroups", JNum(5))),
     Obj1("metadata", Obj1("offerGroups", Str1("x"))),
     Obj1("metadata", Obj1("offerGroups", JList(<<Str1("x")>>))),
     Obj1("metadata", Obj1("offerGroups", JList(<<Obj1("metadata", Str1("x"))>>))),
     Obj1("metadata", Obj1("offerGroups",
         JList(<<Obj1("metadata", Obj1("textureMetadata", JList(<<Str1("x")>>)))>>))),
     Obj1("metadata", Obj1("offerGroups",
         JList(<<Obj1("metadata", Obj1("textureMetadata", JNum(5)))>>))),
     Obj1("metadata", Obj1("background", Str1("x"))),
     Obj1("metadata", Obj1("stackRanks",
         JList(<<Rank(JNum(5), Str1("A")), Rank(JStr(Iso(2025, 9, 10, 0, 0)), Str1("A"))>>))),
     Obj1("metadata", Obj1("stackRanks",
         JList(<<Rank(JNum(5), Str1("A")), Rank(JStr(Iso(2025, 9, 10, 0, 0)), Str1("B"))>>))),
     Obj1("metadata", Obj1("stackRanks",
         JList(<<Rank(JStr(Iso(2025, 9, 10, 0, 0)), JList(<<Str1("A")>>))>>)))}

\* Incomplete sections the code accepts.
IncompleteSections ==
    {JDict(<<>>),
     Obj1("stackRanks", Str1("x")),
     Obj1("metadata", Obj1("stackRanks", JList(<<Rank(JNum(5), Str1("A"))>>))),
     Obj1("metadata", Obj1("offerGroups", JList(<<JDict(<<>>)>>)))}

\* Sections with and without the wrappers of line 32, the wrapper present
\* with a falsy value included, and identifier keys in the raw section and in
\* the wrappers, in and out of the order of the alias lists.
SectionWrapper ==
    JDict(<< <<"id", Str1("w")>>, <<"title", Str1("t")>> >>)
ContentWrapper ==
    JDict(<< <<"name", Str1("c")>>, <<"sectionID", JNull>>,
             <<"sectionDisplayName", Str1("u")>> >>)

SectionOpts ==
    {<<>>} \cup {<< <<"section", v>> >> : v \in {JNull, JDict(<<>>), JNum(0), SectionWrapper}}
ContentOpts ==
    {<<>>} \cup {<< <<"content", v>> >> : v \in {JNull, JDict(<<>>), ContentWrapper}}
OwnOpts ==
    {<<>>,
     << <<"sectionId", Str1("s")>>, <<"displayName", Str1("d")>> >>,
     << <<"name", Str1("n")>>, <<"id", Str1("i")>>,
        <<"sectionDisplayName", Str1("e")>>, <<"title", Str1("f")>> >>,
     << <<"sectionId", JNull>>, <<"id", Str1("i")>> >>}

BaseSections ==
    {JDict(a \o c \o o) : a \in SectionOpts, c \in ContentOpts, o \in OwnOpts}

Sections ==
    WindowSections \cup OfferGroupSections \cup MalformedSections
        \cup IncompleteSections \cup BaseSections

----------------------------------------------------------------------------
(* The specification of one call of normalize_section.                     *)

Idle == [t |-> "idle"]
NoCall == [raised |-> FALSE, ret |-> NoSection, groups |-> <<>>, parsed_ranks |-> <<>>]

NoFiles ==
    [response_json |-> Idle, day_files |-> <<>>, saved |-> {}, warnings |-> 0,
     tsv |-> FALSE, rendered |-> <<>>]

MainIdle ==
    /\ mpc = "idle" /\ data = Idle /\ sections = Idle /\ normalized = <<>>
    /\ bucket = <<>> /\ files = NoFiles /\ pos = 0 /\ exit_status = "none"

NormInit ==
    /\ sec \in Sections
    /\ npc = "call"
    /\ out = NoCall
    /\ doc = Idle /\ dpc = "idle" /\ found = Idle
    /\ MainIdle

\* The call: lines 30-114.
Normalize ==
    /\ npc = "call"
    /\ out' = normalize_section(sec)
    /\ npc' = IF out'.raised THEN "raised" ELSE "returned"
    /\ UNCHANGED <<sec, dvars, mvars>>

NormNext == Normalize

SpecNorm == NormInit /\ [][NormNext]_vars

----------------------------------------------------------------------------
(* Properties of normalize_section, checked under SpecNorm.                *)

Returned == npc = "returned"

\* The entries of metadata.offerGroups of the section.
OfferGroupEntries(s) == ListOrEmpty(Get(meta(s), "offerGroups"))

\* The section is wrapped: its base is the object under "section" or "content".
Wrapped(s) == Truthy(Get(s, "section")) \/ Truthy(Get(s, "content"))

\* The stackRanks records the section stores, each place read once: the
\* section's own, the base's when the base is another object, the
\* metadata's, the offer groups'.
CandidateRecords(s) ==
    ListOrEmpty(Get(s, "stackRanks"))
    \o (IF Wrapped(s) THEN ListOrEmpty(Get(base(s), "stackRanks")) ELSE <<>>)
    \o ListOrEmpty(Get(meta(s), "stackRanks"))
    \o og_stackRanks(Iter(og_list(s)))

IsSentinel(x) == JEq(x, JStr(Sentinel))

\* The records with a start date that is present and is not the sentinel.
RealRecords(rs) ==
    {i \in DOMAIN rs :
        Truthy(Get(rs[i], "startDate")) /\ ~IsSentinel(Get(rs[i], "startDate"))}

C2_OneWindowPerCandidate ==
    Returned =>
        Len(out.parsed_ranks) = Cardinality(RealRecords(CandidateRecords(sec)))

\* The position before the windows of group g in parsed_ranks.
RECURSIVE GroupOffset(_, _)
GroupOffset(gs, g) ==
    IF g = 1 THEN 0 ELSE GroupOffset(gs, g - 1) + Len(gs[g - 1].items)

\* C3: the windows of each (context, productTag) group are in ascending
\* startDate order, each endDate is the startDate of the next window of the
\* same group, the last endDate is null, and every window of the group
\* starts at the startDate of a stored record of that group.
C3_GroupsChained ==
    Returned =>
        /\ Len(out.parsed_ranks) = GroupOffset(out.groups, Len(out.groups) + 1)
        /\ \A g \in DOMAIN out.groups :
              LET n == Len(out.groups[g].items)
                  w == SubSeq(out.parsed_ranks, GroupOffset(out.groups, g) + 1,
                              GroupOffset(out.groups, g) + n)
              IN  \A i \in 1..n :
                      /\ \E k \in DOMAIN CandidateRecords(sec) :
                            /\ JEq(w[i].startDate,
                                   Get(CandidateRecords(sec)[k], "startDate"))
                            /\ KeyEq(group_key(CandidateRecords(sec)[k]), out.groups[g].key)
                      /\ i < n => /\ ~Less(w[i + 1].startDate, w[i].startDate)
                                  /\ JEq(w[i].endDate, w[i + 1].startDate)
                      /\ i = n => w[i].endDate = JNull

\* Two groups with windows, one of them with two windows of different dates.
C3_Witness ==
    /\ Returned
    /\ Len(out.groups) = 2
    /\ Len(out.parsed_ranks) = 3
    /\ \E i \in DOMAIN out.parsed_ranks :
          /\ out.parsed_ranks[i].endDate # JNull
          /\ Less(out.parsed_ranks[i].startDate, out.parsed_ranks[i].endDate)

\* C4: no window starts or ends at the sentinel or at a missing start date,
\* and stackRankStart is not the sentinel.
C4_NoSentinel ==
    Returned =>
        /\ \A i \in DOMAIN out.parsed_ranks :
              /\ Truthy(out.parsed_ranks[i].startDate)
              /\ ~IsSentinel(out.parsed_ranks[i].startDate)
              /\ ~IsSentinel(out.parsed_ranks[i].endDate)
              /\ out.parsed_ranks[i].endDate # JNull => Truthy(out.parsed_ranks[i].endDate)
        /\ ~IsSentinel(out.ret.stackRankStart)

\* A section with a sentinel record, a record without startDate and a real one.
C4_Witness ==
    /\ Returned
    /\ \E i, j \in DOMAIN CandidateRecords(sec) :
          /\ IsSentinel(Get(CandidateRecords(sec)[i], "startDate"))
          /\ ~Has(CandidateRecords(sec)[j], "startDate")
    /\ Len(out.parsed_ranks) > 0

\* C5: stackRankStart is the least startDate of the windows of all groups,
\* and is null exactly when there is no window.
C5_StartIsMinimum ==
    Returned =>
        /\ out.ret.stackRankStart = JNull <=> out.parsed_ranks = <<>>
        /\ out.parsed_ranks # <<>> =>
              /\ \E i \in DOMAIN out.parsed_ranks :
                    JEq(out.ret.stackRankStart, out.parsed_ranks[i].startDate)
              /\ \A i \in DOMAIN out.parsed_ranks :
                    ~Less(out.parsed_ranks[i].startDate, out.ret.stackRankStart)

\* Two groups, the least startDate not in the first window.
C5_Witness ==
    /\ Returned
    /\ Len(out.groups) = 2
    /\ Less(out.ret.stackRankStart, out.parsed_ranks[1].startDate)

\* C8: normalize_section never raises, whatever the shape of the section.
C8_NeverRaises == npc # "raised"

\* The value the first of the alias keys present in b maps to, None when b
\* has none of them (or is no object).
FirstPresent(b, keys, v) ==
    IF IsDict(b) /\ \E i \in DOMAIN keys : Has(b, keys[i])
    THEN \E i \in DOMAIN keys :
             /\ Has(b, keys[i])
             /\ \A j \in 1..(i - 1) : ~Has(b, keys[j])
             /\ v = Get(b, keys[i])
    ELSE v = JNull

\* The wrapper chosen by presence: the value of `section` whenever the key
\* is present, else the value of `content` whenever that key is present,
\* else the raw section.
PresentBase(s) ==
    IF Has(s, "section") THEN Get(s, "section")
    ELSE IF Has(s, "content") THEN Get(s, "content")
    ELSE s

\* The wrapper chosen by value: the value of `section` when it is truthy,
\* else the value of `content` when it is truthy, else the raw section.
TruthyBase(s) ==
    IF Has(s, "section") /\ Truthy(Get(s, "section")) THEN Get(s, "section")
    ELSE IF Has(s, "content") /\ Truthy(Get(s, "content")) THEN Get(s, "content")
    ELSE s

\* C11 as stated: the base object is the value of `section` whenever that
\* key is present in the raw section, else the value of `content` whenever
\* that key is present, else the raw section; sectionId and displayName are
\* the value of the first alias key present in that base, null if none is.
C11_BaseByPresence ==
    Returned =>
        /\ FirstPresent(PresentBase(sec), SectionIdKeys, out.ret.sectionId)
        /\ FirstPresent(PresentBase(sec), DisplayNameKeys, out.ret.displayName)

\* C11 amended: the base object is the value of `section` when that value is
\* truthy, else the value of `content` when that value is truthy, else the
\* raw section (a wrapper key present with null, {}, 0, "" or [] is passed
\* over); sectionId and displayName are the value of the first alias key
\* present in that base, in the order of the alias list, null if none is.
C11_BaseByTruthiness ==
    Returned =>
        /\ FirstPresent(TruthyBase(sec), SectionIdKeys, out.ret.sectionId)
        /\ FirstPresent(TruthyBase(sec), DisplayNameKeys, out.ret.displayName)

\* A section whose `section` key is present with an empty object and that
\* has no `content`: the identifiers come from the raw section, where `name`
\* is stored before `id` and `id` is the earlier alias.
C11_Witness ==
    /\ Returned
    /\ Has(sec, "section") /\ Get(sec, "section") = JDict(<<>>)
    /\ ~Has(sec, "content")
    /\ Has(sec, "name")
    /\ out.ret.sectionId = Str1("i")
    /\ out.ret.displayName = Str1("f")

----------------------------------------------------------------------------
(* dig_for_sections, lines 14-28.                                          *)

\* line 16: the alias keys, in the order they are tried.
Aliases == <<"shopSections", "sections", "sectionList", "ShopSections", "shop_sections">>

\* line 17: the aliases that are keys of obj with a list as value.
AliasHits(obj) ==
    {i \in DOMAIN Aliases : Has(obj, Aliases[i]) /\ IsList(Get(obj, Aliases[i]))}

RECURSIVE dig_for_sections(_)
RECURSIVE dig_each(_)

\* lines 19-22 and 24-27: the first truthy result over the values, else None.
dig_each(vs) ==
    IF Len(vs) = 0 THEN JNull
    ELSE LET res == dig_for_sections(Head(vs))
         IN  IF Truthy(res) THEN res ELSE dig_each(Tail(vs))

\* lines 14-28
dig_for_sections(obj) ==
    IF IsDict(obj)
    THEN IF AliasHits(obj) # {}
         THEN Get(obj, Aliases[CHOOSE i \in AliasHits(obj) : \A j \in AliasHits(obj) : i <= j])
         ELSE dig_each([i \in DOMAIN obj.v |-> obj.v[i][2]])
    ELSE IF IsList(obj) THEN dig_each(obj.v)
    ELSE JNull

----------------------------------------------------------------------------
(* The documents dig_for_sections is called with.                          *)

SecA == JDict(<< <<"sectionId", Str1("A")>> >>)
SecB == JDict(<< <<"sectionId", Str1("B")>> >>)

\* What an object holds under the alias keys: nothing, an empty array, a
\* non-empty array, a value that is no array.
AliasParts ==
    {<<>>,
     << <<"sections", JList(<<>>)>> >>,
     << <<"sectionList", JList(<<SecB>>)>> >>,
     << <<"sections", Str1("x")>> >>}

\* An object of depth n: an alias part, and no child or one child (an
\* object of depth n - 1) under the key "data", alone or in an array.
RECURSIVE DocsAt(_)
DocsAt(n) ==
    IF n = 0 THEN {JNull}
    ELSE {JDict(a) : a \in AliasParts}
         \cup {JDict(a \o << <<"data", c>> >>) : a \in AliasParts, c \in DocsAt(n - 1)}
         \cup {JDict(a \o << <<"data", JList(<<JNum(5), c>>)>> >>) :
                  a \in AliasParts, c \in DocsAt(n - 1)}

\* Objects with two alias keys, inserted against the order of the aliases.
TwoAliasDocs ==
    {JDict(<< <<"sections", JList(<<SecA>>)>>, <<"shopSections", JList(<<SecB>>)>> >>),
     JDict(<< <<"sections", JList(<<SecA>>)>>, <<"shopSections", JList(<<>>)>> >>),
     JDict(<< <<"sectionList", JList(<<SecA>>)>>, <<"sections", Str1("x")>> >>)}

Docs == DocsAt(MaxDepth) \cup TwoAliasDocs \cup {JList(<<>>), Str1("x")}

DigInit ==
    /\ doc \in Docs
    /\ dpc = "call"
    /\ found = Idle
    /\ sec = Idle /\ npc = "idle" /\ out = NoCall
    /\ MainIdle

\* The call: lines 14-28.
Dig ==
    /\ dpc = "call"
    /\ found' = dig_for_sections(doc)
    /\ dpc' = "returned"
    /\ UNCHANGED <<doc, nvars, mvars>>

DigNext == Dig

SpecDig == DigInit /\ [][DigNext]_vars

\* The document holds a non-empty array under an alias key somewhere.
RECURSIVE HasSections(_)
HasSections(x) ==
    IF IsDict(x)
    THEN \E i \in DOMAIN x.v :
            \/ /\ \E k \in DOMAIN Aliases : Aliases[k] = x.v[i][1]
               /\ IsList(x.v[i][2]) /\ Truthy(x.v[i][2])
            \/ HasSections(x.v[i][2])
    ELSE IF IsList(x) THEN \E i \in DOMAIN x.v : HasSections(x.v[i])
    ELSE FALSE

\* C6: when the document holds a non-empty array under an alias key, at any
\* depth, dig_for_sections returns a non-empty array.
C6_FindsNonEmptyArray ==
    dpc = "returned" /\ HasSections(doc) => IsList(found) /\ Truthy(found)

----------------------------------------------------------------------------
(* to_jst_date_str, lines 137-146: str.replace, datetime.fromisoformat,    *)
(* astimezone(JST) and strftime("%Y-%m-%d").                               *)

\* iso_str.replace("Z", "+00:00"): every "Z" of the string is replaced.
RECURSIVE replace_Z(_)
replace_Z(s) ==
    IF Len(s) = 0 THEN <<>>
    ELSE (IF Head(s) = "Z" THEN <<"+", "0", "0", ":", "0", "0">> ELSE <<Head(s)>>)
         \o replace_Z(Tail(s))

AllDigits(s, a, b) == \A i \in a..b : IsDigit(s[i])

\* The number written in the characters a..b of s.
RECURSIVE Field(_, _, _)
Field(s, a, b) == IF b < a THEN 0 ELSE 10 * Field(s, a, b - 1) + DigitVal(s[b])

IsLeap(y) == (y % 4 = 0 /\ y % 100 # 0) \/ y % 400 = 0
DaysInMonth(y, m) ==
    IF m = 2 THEN (IF IsLeap(y) THEN 29 ELSE 28)
    ELSE IF m \in {4, 6, 9, 11} THEN 30 ELSE 31

\* datetime.fromisoformat accepts "YYYY-MM-DD?HH:MM:SS.fff+HH:MM" with the
\* fields of a date and a time in range.
WellFormedIso(s) ==
    /\ Len(s) = 29
    /\ AllDigits(s, 1, 4) /\ s[5] = "-" /\ AllDigits(s, 6, 7) /\ s[8] = "-"
    /\ AllDigits(s, 9, 10)
    /\ AllDigits(s, 12, 13) /\ s[14] = ":" /\ AllDigits(s, 15, 16) /\ s[17] = ":"
    /\ AllDigits(s, 18, 19) /\ s[20] = "." /\ AllDigits(s, 21, 23)
    /\ s[24] \in {"+", "-"} /\ AllDigits(s, 25, 26) /\ s[27] = ":" /\ AllDigits(s, 28, 29)
    /\ Field(s, 1, 4) >= 1
    /\ Field(s, 6, 7) \in 1..12
    /\ Field(s, 9, 10) \in 1..DaysInMonth(Field(s, 1, 4), Field(s, 6, 7))
    /\ Field(s, 12, 13) <= 23 /\ Field(s, 15, 16) <= 59 /\ Field(s, 18, 19) <= 59
    /\ Field(s, 25, 26) <= 23 /\ Field(s, 28, 29) <= 59

\* date.toordinal: the number of the day, 1 for 0001-01-01.
RECURSIVE DaysBeforeMonth(_, _)
DaysBeforeMonth(y, m) ==
    IF m = 1 THEN 0 ELSE DaysBeforeMonth(y, m - 1) + DaysInMonth(y, m - 1)
DaysBeforeYear(y) ==
    (y - 1) * 365 + ((y - 1) \div 4) - ((y - 1) \div 100) + ((y - 1) \div 400)
ToOrdinal(y, m, d) == DaysBeforeYear(y) + DaysBeforeMonth(y, m) + d

\* date.fromordinal, for a day of the years y - 1 .. y + 1.
FromOrdinal(n, y) ==
    CHOOSE ymd \in ((y - 1)..(y + 1)) \X (1..12) \X (1..31) :
        /\ ymd[3] <= DaysInMonth(ymd[1], ymd[2])
        /\ ToOrdinal(ymd[1], ymd[2], ymd[3]) = n

\* line 135: JST = timezone(timedelta(hours=9)), in minutes.
JstOffsetMinutes == 540

\* dt.astimezone(zone).strftime("%Y-%m-%d") for the parsed string s: the
\* time of day moves by the difference of the offsets, the date by the
\* days that carries.
zone_date_str(s, zoneMinutes) ==
    LET sign == IF s[24] = "-" THEN -1 ELSE 1
        offset == sign * (60 * Field(s, 25, 26) + Field(s, 28, 29))
        minutes == 60 * Field(s, 12, 13) + Field(s, 15, 16) - offset + zoneMinutes
        days == IF minutes >= 0 THEN minutes \div 1440 ELSE -((1439 - minutes) \div 1440)
        ymd == FromOrdinal(ToOrdinal(Field(s, 1, 4), Field(s, 6, 7), Field(s, 9, 10)) + days,
                           Field(s, 1, 4))
    IN  D4c(ymd[1]) \o <<"-">> \o D2c(ymd[2]) \o <<"-">> \o D2c(ymd[3])

\* A slip of line 143: the day is taken in UTC.
to_jst_date_str_utc(iso_str) ==
    IF ~Truthy(iso_str) \/ ~IsStr(iso_str) THEN JNull
    ELSE IF ~WellFormedIso(replace_Z(iso_str.v)) THEN JNull
    ELSE JStr(zone_date_str(replace_Z(iso_str.v), 0))

\* lines 137-146: None for a falsy argument and for any exception (replace
\* on a value that is no str, a string fromisoformat rejects).
to_jst_date_str(iso_str) ==
    IF ~Truthy(iso_str) \/ ~IsStr(iso_str) THEN JNull
    ELSE IF ~WellFormedIso(replace_Z(iso_str.v)) THEN JNull
    ELSE JStr(zone_date_str(replace_Z(iso_str.v), JstOffsetMinutes))

----------------------------------------------------------------------------
(* main, lines 116-228.                                                    *)

\* lines 150-154: the rows are filed under their day, the dict of buckets
\* kept in insertion order; a row is the index of its dict in normalized.
RECURSIVE bucket_fold(_, _, _)
bucket_fold(rows, i, acc) ==
    IF i > Len(rows) THEN acc
    ELSE LET d == to_jst_date_str(rows[i].stackRankStart)
             I == {b \in DOMAIN acc : acc[b].d = d.v}
         IN  bucket_fold(rows, i + 1,
                 IF ~Truthy(d) THEN acc
                 ELSE IF I = {} THEN Append(acc, [d |-> d.v, rows |-> <<i>>])
                 ELSE [acc EXCEPT ![CHOOSE b \in I : TRUE].rows = Append(@, i)])

\* lines 181-187: the folder of a row's images; the base directory is null.
section_subdir(row) ==
    IF row.hasTextureMetadata
    THEN Or(row.sectionId, Or(row.displayName, JStr(<<"u", "n", "k", "n", "o", "w", "n">>)))
    ELSE JNull

\* lines 203-210: the save_url_to calls of one row, in order.
row_saves(row) ==
    (IF Truthy(row.customTexture)
     THEN <<[url |-> row.customTexture, dest |-> section_subdir(row)]>> ELSE <<>>)
    \o [j \in DOMAIN row.textureUrls |->
           [url |-> JStr(row.textureUrls[j]), dest |-> section_subdir(row)]]

\* lines 203-210: the save_url_to calls of all rows.
all_saves(rows) == flatten([i \in DOMAIN rows |-> row_saves(rows[i])])

----------------------------------------------------------------------------
(* The documents main fetches.                                             *)

U0 == Str2("u", "0")
U1 == Str2("u", "1")

StartOpts == {"none", "month13", "number", "t1459", "t1500", "yearend", "leapday"}
StartOf(o) ==
    CASE o = "month13" -> JStr(Iso(2025, 13, 1, 0, 0))
      [] o = "number" -> JNum(5)
      [] o = "t1459" -> JStr(Iso(2025, 9, 19, 14, 59))
      [] o = "t1500" -> JStr(Iso(2025, 9, 19, 15, 0))
      [] o = "yearend" -> JStr(Iso(2025, 12, 31, 15, 0))
      [] o = "leapday" -> JStr(Iso(2024, 2, 28, 23, 59))

\* A section of the API: a start date in its metadata, or none; with a
\* background and a texture, or without images.
MainSection(o, images) ==
    JDict(<< <<"sectionId", Str1("s")>>, <<"displayName", Str1("n")>>,
             <<"metadata", JDict(
                 (IF o = "none" THEN <<>>
                  ELSE << <<"stackRanks", JList(<<Rank(StartOf(o), Str1("A"))>>)>> >>)
                 \o (IF ~images THEN <<>>
                     ELSE << <<"background", Obj1("customTexture", U0)>>,
                             <<"offerGroups", JList(<<Obj1("metadata",
                                  Obj1("textureMetadata", JList(<<Texture(U1)>>)))>>)>> >>))>> >>)

\* Every start date without images, one of them with images, and a
\* section that is no object.
MainSections ==
    {MainSection(o, FALSE) : o \in StartOpts}
    \cup {MainSection("t1500", TRUE)}
    \cup {Str1("x")}

SectionLists == UNION {[1..n -> MainSections] : n \in 0..MaxSections}

MainDocs ==
    {Obj1("data", Obj1("sections", JList(l))) : l \in SectionLists}
    \cup {JDict(<<>>), Obj1("data", JList(<<SecA>>)), Obj1("sections", Str1("x"))}

----------------------------------------------------------------------------
(* The specification of one run of main.                                   *)

MainInit ==
    /\ mpc = "fetch" /\ data = Idle /\ sections = Idle /\ normalized = <<>>
    /\ bucket = <<>> /\ files = NoFiles /\ pos = 0 /\ exit_status = "none"
    /\ sec = Idle /\ npc = "idle" /\ out = NoCall
    /\ doc = Idle /\ dpc = "idle" /\ found = Idle

\* lines 117-119: the request fails (raise_for_status) or gives a document.
Fetch ==
    /\ mpc = "fetch"
    /\ \/ /\ \E d \in MainDocs : data' = d
          /\ mpc' = "locate"
          /\ UNCHANGED exit_status
       \/ /\ mpc' = "ended"
          /\ exit_status' = "HTTPError"
          /\ UNCHANGED data
    /\ UNCHANGED <<sections, normalized, bucket, files, pos, nvars, dvars>>

\* A slip of lines 122-126: the document is dumped and the run goes on.
LocateNoExit ==
    /\ mpc = "locate"
    /\ sections' = dig_for_sections(data)
    /\ files' = IF Truthy(sections') THEN files ELSE [files EXCEPT !.response_json = data]
    /\ mpc' = "normalize"
    /\ UNCHANGED <<data, normalized, bucket, pos, exit_status, nvars, dvars>>

\* lines 121-126: without sections the document is written to response.json
\* and the run exits with status 1.
Locate ==
    /\ mpc = "locate"
    /\ sections' = dig_for_sections(data)
    /\ IF Truthy(sections')
       THEN /\ mpc' = "normalize"
            /\ UNCHANGED <<files, exit_status>>
       ELSE /\ files' = [files EXCEPT !.response_json = data]
            /\ mpc' = "ended"
            /\ exit_status' = "1"
    /\ UNCHANGED <<data, normalized, bucket, pos, nvars, dvars>>

\* line 128: normalize_section on every section; an exception of a call
\* ends the run.
NormalizeAll ==
    /\ mpc = "normalize"
    /\ LET res == [i \in DOMAIN Iter(sections) |-> normalize_section(Iter(sections)[i])]
       IN  IF \E i \in DOMAIN res : res[i].raised
           THEN /\ mpc' = "ended"
                /\ exit_status' = "normalize_section raised"
                /\ UNCHANGED normalized
           ELSE /\ normalized' = [i \in DOMAIN res |-> res[i].ret]
                /\ mpc' = "bucket"
                /\ UNCHANGED exit_status
    /\ UNCHANGED <<data, sections, bucket, files, pos, nvars, dvars>>

\* lines 149-154
Bucketing ==
    /\ mpc = "bucket"
    /\ bucket' = bucket_fold(normalized, 1, <<>>)
    /\ mpc' = "day_files"
    /\ UNCHANGED <<data, sections, normalized, files, pos, exit_status, nvars, dvars>>

\* lines 157-167: one file per bucket, with its date and its count.
WriteDayFiles ==
    /\ mpc = "day_files"
    /\ files' = [files EXCEPT !.day_files =
                    [b \in DOMAIN bucket |-> [date |-> bucket[b].d,
                                              count |-> Len(bucket[b].rows)]]]
    /\ mpc' = "images"
    /\ pos' = 1
    /\ UNCHANGED <<data, sections, normalized, bucket, exit_status, nvars, dvars>>

\* lines 189-210: one call of save_url_to.  The file exists and nothing is
\* fetched; or it is fetched and written; or an exception of the directory,
\* the request or the write is caught and printed as a warning.
SaveUrl ==
    /\ mpc = "images"
    /\ pos <= Len(all_saves(normalized))
    /\ LET call == all_saves(normalized)[pos]
       IN  \/ UNCHANGED files
           \/ /\ call \notin files.saved
              /\ files' = [files EXCEPT !.saved = @ \cup {call}]
           \/ /\ call \notin files.saved
              /\ files' = [files EXCEPT !.warnings = @ + 1]
    /\ pos' = pos + 1
    /\ UNCHANGED <<mpc, data, sections, normalized, bucket, exit_status, nvars, dvars>>

\* lines 213-225: the TSV file, one line per row.
WriteTsv ==
    /\ mpc = "images"
    /\ pos > Len(all_saves(normalized))
    /\ files' = [files EXCEPT !.tsv = TRUE]
    /\ mpc' = "render"
    /\ pos' = 1
    /\ UNCHANGED <<data, sections, normalized, bucket, exit_status, nvars, dvars>>

\* lines 227-228 and 267-362: create_section_image for one row.  Without a
\* customTexture it returns at once; a failed fetch of the background is
\* caught and printed as a warning (273-280); the image is saved, or the
\* exception of mkdir, save or replace (351-361, try/finally without
\* except) leaves create_section_image and main.
CreateImage ==
    /\ mpc = "render"
    /\ pos <= Len(normalized)
    /\ IF ~Truthy(normalized[pos].customTexture)
       THEN /\ pos' = pos + 1
            /\ UNCHANGED <<mpc, files, exit_status>>
       ELSE \/ /\ files' = [files EXCEPT !.warnings = @ + 1]
               /\ pos' = pos + 1
               /\ UNCHANGED <<mpc, exit_status>>
            \/ /\ files' = [files EXCEPT !.rendered = Append(@, pos)]
               /\ pos' = pos + 1
               /\ UNCHANGED <<mpc, exit_status>>
            \/ /\ mpc' = "ended"
               /\ exit_status' = "image save raised"
               /\ UNCHANGED <<files, pos>>
    /\ UNCHANGED <<data, sections, normalized, bucket, nvars, dvars>>

\* line 228, the end of the loop: main returns.
Finish ==
    /\ mpc = "render"
    /\ pos > Len(normalized)
    /\ mpc' = "ended"
    /\ exit_status' = "0"
    /\ UNCHANGED <<data, sections, normalized, bucket, files, pos, nvars, dvars>>

MainNext ==
    \/ Fetch
    \/ Locate
    \/ NormalizeAll
    \/ Bucketing
    \/ WriteDayFiles
    \/ SaveUrl
    \/ WriteTsv
    \/ CreateImage
    \/ Finish

SpecMain == MainInit /\ [][MainNext]_vars

----------------------------------------------------------------------------
(* Properties of main, checked under SpecMain.                             *)

\* Line 121 has run and the locator found nothing (None or an empty list).
NotFound == mpc \notin {"fetch", "locate"} /\ sections # Idle /\ ~Truthy(sections)

\* C7: when the locator reports not-found, the document is written as it is
\* to response.json, the run ends with exit status 1, and no section is
\* normalized and no other file is written.
C7_NotFoundEndsRun ==
    NotFound =>
        /\ mpc = "ended"
        /\ exit_status = "1"
        /\ files = [NoFiles EXCEPT !.response_json = data]
        /\ normalized = <<>>
        /\ bucket = <<>>

\* A run on a document without any alias key.
C7_Witness ==
    /\ NotFound
    /\ ~HasSections(data)
    /\ data = Obj1("data", JList(<<SecA>>))
    /\ mpc = "ended"
    /\ files.response_json = data

\* The loop of lines 150-154 has ended.
Bucketed == mpc = "day_files"

\* A timestamp "YYYY-MM-DDTHH:MM:SS.fffZ" of a day and a time that exist.
IsUtcTimestamp(x) ==
    /\ IsStr(x)
    /\ Len(x.v) = 24
    /\ x.v[24] = "Z"
    /\ \A i \in (1..23) \ {5, 8, 11, 14, 17, 20} : IsDigit(x.v[i])
    /\ x.v[5] = "-" /\ x.v[8] = "-" /\ x.v[14] = ":" /\ x.v[17] = ":" /\ x.v[20] = "."
    /\ Field(x.v, 6, 7) \in 1..12
    /\ Field(x.v, 9, 10) \in 1..DaysInMonth(Field(x.v, 1, 4), Field(x.v, 6, 7))
    /\ Field(x.v, 12, 13) <= 23 /\ Field(x.v, 15, 16) <= 59 /\ Field(x.v, 18, 19) <= 59

\* The calendar day of a UTC timestamp in UTC+9: the same day before 15:00,
\* the next day from 15:00 on.
DayAfter(y, m, d) ==
    IF d < DaysInMonth(y, m) THEN <<y, m, d + 1>>
    ELSE IF m < 12 THEN <<y, m + 1, 1>>
    ELSE <<y + 1, 1, 1>>
ExpectedDay(s) ==
    LET ymd == IF Field(s, 12, 13) >= 15
               THEN DayAfter(Field(s, 1, 4), Field(s, 6, 7), Field(s, 9, 10))
               ELSE <<Field(s, 1, 4), Field(s, 6, 7), Field(s, 9, 10)>>
    IN  D4c(ymd[1]) \o <<"-">> \o D2c(ymd[2]) \o <<"-">> \o D2c(ymd[3])

\* The buckets that hold row i.
Holders(i) == {b \in DOMAIN bucket : \E k \in DOMAIN bucket[b].rows : bucket[b].rows[k] = i}

\* C9: a row whose stackRankStart is null or does not parse is in no bucket;
\* every other row is in exactly one bucket, the one of the calendar day of
\* its stackRankStart in UTC+9; the rows of a bucket are in input order.
C9_BucketByJstDay ==
    Bucketed =>
        /\ \A i \in DOMAIN normalized :
              IF IsUtcTimestamp(normalized[i].stackRankStart)
              THEN /\ Cardinality(Holders(i)) = 1
                   /\ \A b \in Holders(i) :
                         bucket[b].d = ExpectedDay(normalized[i].stackRankStart.v)
              ELSE Holders(i) = {}
        /\ \A b \in DOMAIN bucket :
              \A k \in 1..(Len(bucket[b].rows) - 1) :
                  bucket[b].rows[k] < bucket[b].rows[k + 1]
        /\ \A b, c \in DOMAIN bucket : b # c => bucket[b].d # bucket[c].d

\* Two rows: the first has a stackRankStart that does not parse, the second
\* starts at 15:00 UTC and is filed under the next day.
C9_Witness ==
    /\ Bucketed
    /\ Len(normalized) = 2
    /\ IsStr(normalized[1].stackRankStart)
    /\ ~IsUtcTimestamp(normalized[1].stackRankStart)
    /\ normalized[2].stackRankStart = JStr(Iso(2025, 9, 19, 15, 0))
    /\ Len(bucket) = 1
    /\ bucket[1].rows = <<2>>
    /\ bucket[1].d = <<"2", "0", "2", "5", "-", "0", "9", "-", "2", "0">>

\* C10: no failure of an image fetch or of an image save ends the run: main
\* does not end on an exception of create_section_image.
C10_ImageFailureSkipped == exit_status # "image save raised"

====
